---- MODULE Spec2Model ----
(***************************************************************************)
(* Host-side coordination of src/src/main.rs: the main thread builds one   *)
(* ProQue, result buffer, status buffer and kernel per device, enqueues    *)
(* every kernel, spawns one monitor thread per device, joins them and      *)
(* prints the summary.  Each monitor thread polls its device's buffers,    *)
(* and the shared Mutex<bool> prime_found stops the polling.               *)
(*                                                                         *)
(* The kernel lanes run asynchronously with the host: a host read may see  *)
(* any intermediate content of the device buffers.  (With an in-order      *)
(* queue the read is served after the kernel has finished, which is one    *)
(* of the interleavings below.)                                            *)
(***************************************************************************)
EXTENDS Integers, Sequences, FiniteSets, TLC

\* ---------------------------------------------------------------- bounds
\* number of devices returned by Device::list_all over all platforms
NumDevices == 2
\* pq.dims(): the number of lanes of one kernel (max_threads, 1024 in the code)
MaxThreads == 1
\* end - start (1_000_000_000 in the code)
RangeSpan == 2
\* elapsed_time is kept exactly up to ElapsedCap; beyond it only its value
\* modulo SampleInterval is kept (the code reads it only through % 10)
ElapsedCap == 10

\* ------------------------------------------------------- program constants
\* main.rs:170  elapsed_time % 10
SampleInterval == 10

Devices == 1..NumDevices
Lanes == 0..(MaxThreads - 1)
\* the values `start` is drawn from: [10, 12] holds the prime 11, [24, 26] none
StartChoices == {10, 24}
\* what a buffer created without a fill may hold before the kernel writes it
UninitValues == {0, 4}
\* nobody holds the mutex
NoHolder == -1

VARIABLES
    start,           \* kernel argument `start`
    end,             \* kernel argument `end`
    mainPc,          \* position of main()
    mainIdx,         \* device the current loop of main() is at
    pro_ques,        \* devices whose ProQue is built
    result_buffers,  \* devices whose result buffer is created
    status_buffers,  \* devices whose status buffer is created
    kernels,         \* devices whose kernel is built
    enqueued,        \* devices whose kernel has been enqueued
    result,          \* result[d]: device memory of result[0]
    status,          \* status[d][l]: device memory of status[tid]
    lanePc,          \* lanePc[d][l]: position of lane l of device d's kernel
    laneI,           \* laneI[d][l]: loop variable i of the lane
    prime_found,     \* the bool inside the Mutex
    lock_holder,     \* who holds the Mutex
    pc,              \* pc[d]: position of monitor thread d
    elapsed_time,    \* elapsed_time[d]
    found_report,    \* found_report[d]: values printed as "Prime found by GPU d"
    flag_writes,     \* flag_writes[d]: writes of prime_found done by monitor d
    reads_after_flag,\* reads_after_flag[d]: status reads begun while prime_found
    summary,         \* the lines main() printed at the end
    panic_at,        \* the position at which main() panicked, "" if it did not
    status_log,      \* status_log[d][l]: the values lane l wrote to status[tid]
    sample_emitted,  \* sample_emitted[d]: the last completed tick printed a sample
    buffers_read,    \* buffers_read[d]: devices whose buffers monitor d has read
    telemetry_queried \* telemetry_queried[d]: NVML indices monitor d has queried

vars == <<start, end, mainPc, mainIdx, pro_ques, result_buffers, status_buffers,
          kernels, enqueued, result, status, lanePc, laneI, prime_found,
          lock_holder, pc, elapsed_time, found_report, flag_writes,
          reads_after_flag, summary, panic_at, status_log, sample_emitted,
          buffers_read, telemetry_queried>>

mainVars == <<mainPc, mainIdx, pro_ques, result_buffers, status_buffers,
              kernels, enqueued, summary, panic_at>>
kernelVars == <<result, status, lanePc, laneI, status_log>>
monitorVars == <<pc, elapsed_time, found_report, flag_writes, reads_after_flag,
                 sample_emitted, buffers_read, telemetry_queried>>

\* ------------------------------------------------------------- the kernel
RECURSIVE is_prime_loop(_, _)
\* main.rs:14-16  for (i = 5; i * i <= n; i += 6)
is_prime_loop(n, i) ==
    IF i * i <= n
    THEN IF n % i = 0 \/ n % (i + 2) = 0
         THEN 0
         ELSE is_prime_loop(n, i + 6)
    ELSE 1

\* main.rs:10-18
is_prime(n) ==
    IF n <= 1 THEN 0
    ELSE IF n <= 3 THEN 1
    ELSE IF n % 2 = 0 \/ n % 3 = 0 THEN 0
    ELSE is_prime_loop(n, 5)

\* the process is gone once main() has returned or panicked
ProcessAlive == mainPc \notin {"done", "aborted"}

\* LaneStride of a lane that steps over every other value of its stride
LaneStrideDouble == 2 * MaxThreads

\* main.rs:22-23  step = get_global_size(0); i += step
LaneStride == MaxThreads

\* LaneRunnable of a kernel that the host stops once the flag is set
LaneRunnableUntilFlag(d) == d \in enqueued /\ ~prime_found

\* main.rs:111-115  a lane of device d runs once its kernel is enqueued; the
\* host never waits for the kernel nor cancels it
LaneRunnable(d) == d \in enqueued

\* main.rs:23-29: one step of lane l of device d: the loop test and the status
\* write, or the primality test with the result write or the increment
LaneStep(d, l) ==
    /\ ProcessAlive
    /\ LaneRunnable(d)
    /\ \/ /\ lanePc[d][l] = "loop"
          /\ IF laneI[d][l] <= end
             THEN /\ status' = [status EXCEPT ![d][l] = laneI[d][l]]
                  /\ status_log' =
                        [status_log EXCEPT ![d][l] = Append(@, laneI[d][l])]
                  /\ lanePc' = [lanePc EXCEPT ![d][l] = "test"]
             ELSE /\ lanePc' = [lanePc EXCEPT ![d][l] = "done"]
                  /\ UNCHANGED <<status, status_log>>
          /\ UNCHANGED <<result, laneI>>
       \/ /\ lanePc[d][l] = "test"
          /\ IF is_prime(laneI[d][l]) # 0
             THEN /\ result' = [result EXCEPT ![d] = laneI[d][l]]
                  /\ lanePc' = [lanePc EXCEPT ![d][l] = "done"]
                  /\ UNCHANGED laneI
             ELSE /\ laneI' = [laneI EXCEPT ![d][l] = laneI[d][l] + LaneStride]
                  /\ lanePc' = [lanePc EXCEPT ![d][l] = "loop"]
                  /\ UNCHANGED result
          /\ UNCHANGED <<status, status_log>>
    /\ UNCHANGED <<start, end, prime_found, lock_holder>>
    /\ UNCHANGED mainVars
    /\ UNCHANGED monitorVars

\* ------------------------------------------------------------ main thread
\* the loops of main() over the devices, in program order
DeviceLoops == <<"build_proque", "build_result", "build_status", "build_kernel",
                 "enqueue", "spawn", "join">>

\* the steps that construct the execution contexts (main.rs:53-106)
ConstructionSteps == {"build_proque", "build_result", "build_status", "build_kernel"}

LoopIndex(phase) == CHOOSE k \in 1..Len(DeviceLoops) : DeviceLoops[k] = phase

\* MainAfter with the loops fused: each device is built and enqueued before the
\* next device is built
MainAfterFused(phase, idx) ==
    IF phase \in {"spawn", "join"}
    THEN IF idx < NumDevices
         THEN <<phase, idx + 1>>
         ELSE <<IF phase = "join" THEN "summary" ELSE "join", 1>>
    ELSE IF phase # "enqueue"
         THEN <<DeviceLoops[LoopIndex(phase) + 1], idx>>
         ELSE IF idx < NumDevices
              THEN <<"build_proque", idx + 1>>
              ELSE <<"spawn", 1>>

\* main.rs:53-186: where main() is after the body of loop `phase` has run for
\* device idx: the next device of the same loop, or the first of the next loop
MainAfter(phase, idx) ==
    IF idx < NumDevices
    THEN <<phase, idx + 1>>
    ELSE IF phase = "join"
         THEN <<"summary", 1>>
         ELSE <<DeviceLoops[LoopIndex(phase) + 1], 1>>

\* an .expect()/.unwrap() of main() that fails: the process is gone
MainPanic ==
    /\ mainPc' = "aborted"
    /\ panic_at' = mainPc
    /\ UNCHANGED mainIdx

MainAdvance ==
    /\ mainPc' = MainAfter(mainPc, mainIdx)[1]
    /\ mainIdx' = MainAfter(mainPc, mainIdx)[2]
    /\ UNCHANGED panic_at

\* main.rs:35  Nvml::init().expect(..)
NvmlInit ==
    /\ mainPc = "nvml_init"
    /\ \E ok \in BOOLEAN :
          IF ok
          THEN mainPc' = "list_devices" /\ UNCHANGED <<mainIdx, panic_at>>
          ELSE MainPanic
    /\ UNCHANGED <<pro_ques, result_buffers, status_buffers, kernels, enqueued, summary>>
    /\ UNCHANGED <<start, end, prime_found, lock_holder>>
    /\ UNCHANGED kernelVars
    /\ UNCHANGED monitorVars

\* main.rs:38-46  Platform::list(), Device::list_all(..).unwrap(), name().unwrap()
ListDevices ==
    /\ mainPc = "list_devices"
    /\ \E ok \in BOOLEAN :
          IF ok
          THEN mainPc' = "build_proque" /\ UNCHANGED <<mainIdx, panic_at>>
          ELSE MainPanic
    /\ UNCHANGED <<pro_ques, result_buffers, status_buffers, kernels, enqueued, summary>>
    /\ UNCHANGED <<start, end, prime_found, lock_holder>>
    /\ UNCHANGED kernelVars
    /\ UNCHANGED monitorVars

\* main.rs:56-73  Context::builder()..expect, ProQue::builder()..expect, push
BuildProQue ==
    /\ mainPc = "build_proque"
    /\ \E ok \in BOOLEAN :
          IF ok
          THEN pro_ques' = pro_ques \cup {mainIdx} /\ MainAdvance
          ELSE MainPanic /\ UNCHANGED pro_ques
    /\ UNCHANGED <<result_buffers, status_buffers, kernels, enqueued, summary>>
    /\ UNCHANGED <<start, end, prime_found, lock_holder>>
    /\ UNCHANGED kernelVars
    /\ UNCHANGED monitorVars

\* main.rs:77-84  the result buffer, created with no initial content
BuildResultBuffer ==
    /\ mainPc = "build_result"
    /\ \E ok \in BOOLEAN :
          IF ok
          THEN /\ result_buffers' = result_buffers \cup {mainIdx}
               /\ \E v \in UninitValues : result' = [result EXCEPT ![mainIdx] = v]
               /\ MainAdvance
          ELSE MainPanic /\ UNCHANGED <<result_buffers, result>>
    /\ UNCHANGED <<pro_ques, status_buffers, kernels, enqueued, summary>>
    /\ UNCHANGED <<start, end, prime_found, lock_holder>>
    /\ UNCHANGED <<status, lanePc, laneI, status_log>>
    /\ UNCHANGED monitorVars

\* main.rs:86-93  the status buffer, created with no initial content
BuildStatusBuffer ==
    /\ mainPc = "build_status"
    /\ \E ok \in BOOLEAN :
          IF ok
          THEN /\ status_buffers' = status_buffers \cup {mainIdx}
               /\ \E v \in UninitValues :
                     status' = [status EXCEPT ![mainIdx] = [l \in Lanes |-> v]]
               /\ MainAdvance
          ELSE MainPanic /\ UNCHANGED <<status_buffers, status>>
    /\ UNCHANGED <<pro_ques, result_buffers, kernels, enqueued, summary>>
    /\ UNCHANGED <<start, end, prime_found, lock_holder>>
    /\ UNCHANGED <<result, lanePc, laneI, status_log>>
    /\ UNCHANGED monitorVars

\* main.rs:98-106  kernel_builder(..).arg(rb).arg(sb).arg(start).arg(end).build().expect
BuildKernel ==
    /\ mainPc = "build_kernel"
    /\ \E ok \in BOOLEAN :
          IF ok
          THEN kernels' = kernels \cup {mainIdx} /\ MainAdvance
          ELSE MainPanic /\ UNCHANGED kernels
    /\ UNCHANGED <<pro_ques, result_buffers, status_buffers, enqueued, summary>>
    /\ UNCHANGED <<start, end, prime_found, lock_holder>>
    /\ UNCHANGED kernelVars
    /\ UNCHANGED monitorVars

\* main.rs:111-115  kernel.enq().expect(..): every lane starts at start + tid
Enqueue ==
    /\ mainPc = "enqueue"
    /\ \E ok \in BOOLEAN :
          IF ok
          THEN /\ enqueued' = enqueued \cup {mainIdx}
               /\ laneI' = [laneI EXCEPT ![mainIdx] = [l \in Lanes |-> start + l]]
               /\ lanePc' = [lanePc EXCEPT ![mainIdx] = [l \in Lanes |-> "loop"]]
               /\ MainAdvance
          ELSE MainPanic /\ UNCHANGED <<enqueued, laneI, lanePc>>
    /\ UNCHANGED <<pro_ques, result_buffers, status_buffers, kernels, summary>>
    /\ UNCHANGED <<start, end, prime_found, lock_holder>>
    /\ UNCHANGED <<result, status, status_log>>
    /\ UNCHANGED monitorVars

\* main.rs:121-182  thread::spawn of the monitor of device mainIdx
\* (elapsed_time = 0 at main.rs:130)
Spawn ==
    /\ mainPc = "spawn"
    /\ pc' = [pc EXCEPT ![mainIdx] = "lock_check"]
    /\ elapsed_time' = [elapsed_time EXCEPT ![mainIdx] = 0]
    /\ sample_emitted' = [sample_emitted EXCEPT ![mainIdx] = FALSE]
    /\ MainAdvance
    /\ UNCHANGED <<pro_ques, result_buffers, status_buffers, kernels, enqueued, summary>>
    /\ UNCHANGED <<start, end, prime_found, lock_holder>>
    /\ UNCHANGED kernelVars
    /\ UNCHANGED <<found_report, flag_writes, reads_after_flag>>
    /\ UNCHANGED <<buffers_read, telemetry_queried>>

\* the positions of a monitor thread that has returned or panicked
ThreadFinished == {"found", "stopped", "errored", "panicked"}

\* JoinReady of a join that does not wait for the thread
JoinReadyNoWait(d) == TRUE

\* main.rs:185  t.join() returns once thread d has finished
JoinReady(d) == pc[d] \in ThreadFinished

\* main.rs:184-186  t.join().unwrap(): a panicked thread makes main() panic
Join ==
    /\ mainPc = "join"
    /\ JoinReady(mainIdx)
    /\ IF pc[mainIdx] = "panicked"
       THEN MainPanic
       ELSE MainAdvance
    /\ UNCHANGED <<pro_ques, result_buffers, status_buffers, kernels, enqueued, summary>>
    /\ UNCHANGED <<start, end, prime_found, lock_holder>>
    /\ UNCHANGED kernelVars
    /\ UNCHANGED monitorVars

NoPrimeLine == "No prime found in the range."
FinishedLine == "Computation finished."

\* SummaryLines of a test of the flag without the negation
SummaryLinesInverted(flag) ==
    IF flag THEN <<NoPrimeLine, FinishedLine>> ELSE <<FinishedLine>>

\* main.rs:188-192  if !*prime_found.lock().unwrap() { println!(..) } println!(..)
SummaryLines(flag) ==
    IF ~flag THEN <<NoPrimeLine, FinishedLine>> ELSE <<FinishedLine>>

\* main.rs:188-192  the flag is read under the lock, then the summary is printed
Summary ==
    /\ mainPc = "summary"
    /\ lock_holder = NoHolder
    /\ summary' = SummaryLines(prime_found)
    /\ mainPc' = "done"
    /\ UNCHANGED <<mainIdx, panic_at>>
    /\ UNCHANGED <<pro_ques, result_buffers, status_buffers, kernels, enqueued>>
    /\ UNCHANGED <<start, end, prime_found, lock_holder>>
    /\ UNCHANGED kernelVars
    /\ UNCHANGED monitorVars

\* ---------------------------------------------------------- monitor threads
\* NextElapsed of a counter that advances by the sleep of two ticks
NextElapsedTwice(e) ==
    IF e + 2 > ElapsedCap THEN e + 2 - SampleInterval ELSE e + 2

\* main.rs:179  elapsed_time += 1 (kept modulo SampleInterval beyond ElapsedCap)
NextElapsed(e) ==
    IF e + 1 > ElapsedCap THEN e + 1 - SampleInterval ELSE e + 1

\* FlagWrite of a store that flips the bool
FlagWriteToggle(old) == ~old

\* FlagWrite of a store that writes back what it read
FlagWriteNoop(old) == old

\* main.rs:153  the value stored by `*prime_found.lock().unwrap() = true`
FlagWrite(old) == TRUE

\* BreakOnFlag of a loop that ignores the flag
BreakOnFlagNever(flag) == FALSE

\* main.rs:134  whether the monitor leaves the loop on the value it read
BreakOnFlag(flag) == flag

\* StopsOnFlag of a loop in which a non-zero result slot overrides the flag
StopsUnlessResult(flag, res) == flag /\ res = 0

\* main.rs:134-136  the break at the top of an iteration depends on the flag
\* alone; the result buffer (res) has not been read at that point
StopsOnFlag(flag, res) == BreakOnFlag(flag)

\* ReportLine of a Found arm that stores the flag without printing
ReportLineOmitted(v) == <<>>

\* main.rs:152  println!("Prime found by GPU {}: {}", idx, result[0])
ReportLine(v) == <<v>>

\* FlagAfterReadError of an Err arm that also signals the siblings to stop
FlagSetOnReadError(flag) == TRUE

\* main.rs:157-160, 163-166  the flag after an Err arm: the arm prints and
\* breaks, it does not touch prime_found
FlagAfterReadError(flag) == flag

\* GuardAfterCheck of a guard bound to a local that lives to the end of the tick
GuardHeldAcrossTick(d) == d

\* main.rs:134  the holder of the mutex once the condition of the `if` has been
\* evaluated: the MutexGuard is a temporary of the condition and is dropped
GuardAfterCheck(d) == NoHolder

\* AfterNonZero of a branch with neither the store nor the break
AfterNonZeroNoBreak == "telemetry"

\* main.rs:151-154  where the monitor goes once it has printed the result: to
\* the store of the flag, then out of the loop
AfterNonZero == "lock_set"

\* SampleDue of a gate that is open on every tick
SampleDueEveryTick(e) == TRUE

\* main.rs:170  whether this tick samples the telemetry
SampleDue(e) == e % SampleInterval = 0

\* BufferOf of threads that all capture the buffers of the first device
BufferOfFirst(d) == 1

\* main.rs:121-125  the device whose status_buffer and result_buffer the thread
\* of device d captures: the zip pairs the i-th buffers with the i-th ProQue
BufferOf(d) == d

\* TelemetryIndex of threads that all query the first NVML device
TelemetryIndexFirst(d) == 1

\* main.rs:171  nvml.device_by_index(i as u32): i is the thread's own index
TelemetryIndex(d) == d

\* GuardAfterStore of a guard that is leaked instead of dropped
GuardLeakedAfterStore(d) == d

\* main.rs:153  the holder of the mutex after the store: the MutexGuard is a
\* temporary of the assignment statement and is dropped at its end
GuardAfterStore(d) == NoHolder

\* main.rs:128-181  the closure returns or panics: its locals are dropped, so
\* the model forgets elapsed_time[d] and what its last tick did
ThreadEnds(d, how) ==
    /\ pc' = [pc EXCEPT ![d] = how]
    /\ elapsed_time' = [elapsed_time EXCEPT ![d] = 0]
    /\ sample_emitted' = [sample_emitted EXCEPT ![d] = FALSE]

\* main.rs:134  prime_found.lock(): blocks until the mutex is free
LockForCheck(d) ==
    /\ ProcessAlive
    /\ pc[d] = "lock_check"
    /\ lock_holder = NoHolder
    /\ lock_holder' = d
    /\ pc' = [pc EXCEPT ![d] = "check_flag"]
    /\ UNCHANGED <<start, end, prime_found>>
    /\ UNCHANGED <<elapsed_time, found_report, flag_writes, reads_after_flag>>
    /\ UNCHANGED <<sample_emitted, buffers_read, telemetry_queried>>
    /\ UNCHANGED mainVars
    /\ UNCHANGED kernelVars

\* main.rs:134-136  read the flag, drop the guard, break if it is set
CheckFlag(d) ==
    /\ ProcessAlive
    /\ pc[d] = "check_flag"
    /\ lock_holder = d
    /\ lock_holder' = GuardAfterCheck(d)
    /\ IF StopsOnFlag(prime_found, result[BufferOf(d)])
       THEN ThreadEnds(d, "stopped")
       ELSE /\ pc' = [pc EXCEPT ![d] = "read_status"]
            /\ UNCHANGED <<elapsed_time, sample_emitted>>
    /\ UNCHANGED <<start, end, prime_found>>
    /\ UNCHANGED <<found_report, flag_writes, reads_after_flag>>
    /\ UNCHANGED <<buffers_read, telemetry_queried>>
    /\ UNCHANGED mainVars
    /\ UNCHANGED kernelVars

\* main.rs:139-145, 163-166  status_buffer.read(&mut status).enq()
ReadStatus(d) ==
    /\ ProcessAlive
    /\ pc[d] = "read_status"
    /\ \E ok \in BOOLEAN :
          IF ok
          THEN /\ pc' = [pc EXCEPT ![d] = "read_result"]
               /\ UNCHANGED <<elapsed_time, sample_emitted, prime_found>>
          ELSE /\ ThreadEnds(d, "errored")
               /\ prime_found' = FlagAfterReadError(prime_found)
    /\ reads_after_flag' =
          [reads_after_flag EXCEPT ![d] = IF prime_found THEN @ + 1 ELSE @]
    /\ buffers_read' = [buffers_read EXCEPT ![d] = @ \cup {BufferOf(d)}]
    /\ UNCHANGED <<start, end, lock_holder>>
    /\ UNCHANGED <<found_report, flag_writes, telemetry_queried>>
    /\ UNCHANGED mainVars
    /\ UNCHANGED kernelVars

\* main.rs:148-152, 157-160  result_buffer.read(&mut result).enq(), the test
\* result[0] != 0 and the "Prime found by GPU" line
ReadResult(d) ==
    /\ ProcessAlive
    /\ pc[d] = "read_result"
    /\ \E ok \in BOOLEAN :
          IF ~ok
          THEN /\ ThreadEnds(d, "errored")
               /\ prime_found' = FlagAfterReadError(prime_found)
               /\ UNCHANGED found_report
          ELSE IF result[BufferOf(d)] # 0
               THEN /\ found_report' =
                          [found_report EXCEPT ![d] = @ \o ReportLine(result[BufferOf(d)])]
                    /\ pc' = [pc EXCEPT ![d] = AfterNonZero]
                    /\ UNCHANGED <<elapsed_time, sample_emitted, prime_found>>
               ELSE /\ pc' = [pc EXCEPT ![d] = "telemetry"]
                    /\ UNCHANGED <<found_report, elapsed_time, sample_emitted,
                                   prime_found>>
    /\ buffers_read' = [buffers_read EXCEPT ![d] = @ \cup {BufferOf(d)}]
    /\ UNCHANGED <<start, end, lock_holder>>
    /\ UNCHANGED <<flag_writes, reads_after_flag, telemetry_queried>>
    /\ UNCHANGED mainVars
    /\ UNCHANGED kernelVars

\* main.rs:153  prime_found.lock(): a second acquisition of the mutex
LockForSet(d) ==
    /\ ProcessAlive
    /\ pc[d] = "lock_set"
    /\ lock_holder = NoHolder
    /\ lock_holder' = d
    /\ pc' = [pc EXCEPT ![d] = "set_flag"]
    /\ UNCHANGED <<start, end, prime_found>>
    /\ UNCHANGED <<elapsed_time, found_report, flag_writes, reads_after_flag>>
    /\ UNCHANGED <<sample_emitted, buffers_read, telemetry_queried>>
    /\ UNCHANGED mainVars
    /\ UNCHANGED kernelVars

\* main.rs:153-154  store true, drop the guard, break
SetFlag(d) ==
    /\ ProcessAlive
    /\ pc[d] = "set_flag"
    /\ lock_holder = d
    /\ prime_found' = FlagWrite(prime_found)
    /\ lock_holder' = GuardAfterStore(d)
    /\ flag_writes' = [flag_writes EXCEPT ![d] = @ + 1]
    /\ ThreadEnds(d, "found")
    /\ UNCHANGED <<start, end>>
    /\ UNCHANGED <<found_report, reads_after_flag>>
    /\ UNCHANGED <<buffers_read, telemetry_queried>>
    /\ UNCHANGED mainVars
    /\ UNCHANGED kernelVars

\* main.rs:170-179  the telemetry queries (each .expect() panics the thread)
\* and the sample line, then thread::sleep and elapsed_time += 1
TelemetryAndSleep(d) ==
    /\ ProcessAlive
    /\ pc[d] = "telemetry"
    /\ \E ok \in BOOLEAN :
          IF SampleDue(elapsed_time[d]) /\ ~ok
          THEN ThreadEnds(d, "panicked")
          ELSE /\ pc' = [pc EXCEPT ![d] = "lock_check"]
               /\ sample_emitted' =
                     [sample_emitted EXCEPT ![d] = SampleDue(elapsed_time[d])]
               /\ elapsed_time' = [elapsed_time EXCEPT ![d] = NextElapsed(@)]
    /\ telemetry_queried' =
          [telemetry_queried EXCEPT ![d] =
              IF SampleDue(elapsed_time[d]) THEN @ \cup {TelemetryIndex(d)} ELSE @]
    /\ UNCHANGED <<start, end, prime_found, lock_holder>>
    /\ UNCHANGED <<found_report, flag_writes, reads_after_flag, buffers_read>>
    /\ UNCHANGED mainVars
    /\ UNCHANGED kernelVars

\* ------------------------------------------------------------ specification
Init ==
    /\ start \in StartChoices
    /\ end = start + RangeSpan
    /\ mainPc = "nvml_init"
    /\ mainIdx = 1
    /\ pro_ques = {}
    /\ result_buffers = {}
    /\ status_buffers = {}
    /\ kernels = {}
    /\ enqueued = {}
    /\ result = [d \in Devices |-> 0]
    /\ status = [d \in Devices |-> [l \in Lanes |-> 0]]
    /\ lanePc = [d \in Devices |-> [l \in Lanes |-> "idle"]]
    /\ laneI = [d \in Devices |-> [l \in Lanes |-> 0]]
    /\ prime_found = FALSE
    /\ lock_holder = NoHolder
    /\ pc = [d \in Devices |-> "unspawned"]
    /\ elapsed_time = [d \in Devices |-> 0]
    /\ found_report = [d \in Devices |-> <<>>]
    /\ flag_writes = [d \in Devices |-> 0]
    /\ reads_after_flag = [d \in Devices |-> 0]
    /\ summary = <<>>
    /\ panic_at = ""
    /\ status_log = [d \in Devices |-> [l \in Lanes |-> <<>>]]
    /\ sample_emitted = [d \in Devices |-> FALSE]
    /\ buffers_read = [d \in Devices |-> {}]
    /\ telemetry_queried = [d \in Devices |-> {}]

Main ==
    \/ NvmlInit
    \/ ListDevices
    \/ BuildProQue
    \/ BuildResultBuffer
    \/ BuildStatusBuffer
    \/ BuildKernel
    \/ Enqueue
    \/ Spawn
    \/ Join
    \/ Summary

Monitor(d) ==
    \/ LockForCheck(d)
    \/ CheckFlag(d)
    \/ ReadStatus(d)
    \/ ReadResult(d)
    \/ LockForSet(d)
    \/ SetFlag(d)
    \/ TelemetryAndSleep(d)

Next ==
    \/ Main
    \/ \E d \in Devices : Monitor(d)
    \/ \E d \in Devices : \E l \in Lanes : LaneStep(d, l)

Spec == Init /\ [][Next]_vars

\* The scheduling the code relies on: the OS runs every thread that can run
\* and the device runs every enqueued lane (weak fairness of main() and of the
\* lanes).  A monitor thread can always run except while it waits in
\* Mutex::lock(); every holder releases the mutex after one access of the bool
\* and takes it again only after a one-second sleep, so a waiting thread gets
\* it (strong fairness of the monitor threads).
Fairness ==
    /\ WF_vars(Main)
    /\ \A d \in Devices : SF_vars(Monitor(d))
    /\ \A d \in Devices : \A l \in Lanes : WF_vars(LaneStep(d, l))

FairSpec == Init /\ [][Next]_vars /\ Fairness

\* ------------------------------------------------------------------ claims
\* the range [start, end] holds a value the kernel accepts
RangeHasPrime == \E n \in start..end : is_prime(n) # 0

\* no startup step, buffer read or telemetry query has failed
NoFailure ==
    /\ mainPc # "aborted"
    /\ \A d \in Devices : pc[d] \notin {"errored", "panicked"}

\* the number of "Prime found by GPU" lines printed so far
RECURSIVE SumOver(_, _)
SumOver(f, S) ==
    IF S = {} THEN 0
    ELSE LET d == CHOOSE x \in S : TRUE IN f[d] + SumOver(f, S \ {d})

TotalReports == SumOver([d \in Devices |-> Len(found_report[d])], Devices)
TotalFlagWrites == SumOver(flag_writes, Devices)

\* every value reported so far is a qualifying value of the range
GenuineReports ==
    \A d \in Devices : \A k \in 1..Len(found_report[d]) :
        /\ found_report[d][k] \in start..end
        /\ is_prime(found_report[d][k]) # 0

\* C1 as stated: over the whole run at most one monitor prints a result, also
\* when every printed value is a prime of the range.
C1_SingleReport == GenuineReports => TotalReports <= 1

\* C1 as amended: every monitor prints at most one result, and it has printed
\* one exactly when it is at, or past, the store of the flag; the run prints
\* at most one result per device.
C1_OneReportPerMonitor ==
    /\ \A d \in Devices :
          /\ Len(found_report[d]) <= 1
          /\ Len(found_report[d]) = 1 <=> pc[d] \in {"lock_set", "set_flag", "found"}
    /\ TotalReports <= NumDevices

\* C1 witness: two monitors have each printed a prime of the range.
C1_Witness == GenuineReports /\ TotalReports = 2

\* C2: once prime_found is true, no step makes it false.
C2_MonotonicFlag == [][prime_found => prime_found']_vars

\* C2 witness: the flag is true and a monitor holds the lock for another store.
C2_Witness == prime_found /\ \E d \in Devices : pc[d] = "set_flag"

\* C3 as stated: the flag is written at most once in a run.
C3_SingleWrite == GenuineReports => TotalFlagWrites <= 1

\* the mutex is held only at the read and at the store of the bool
LockOnlyAroundAccess ==
    \A d \in Devices :
        /\ lock_holder = d => pc[d] \in {"check_flag", "set_flag"}
        /\ pc[d] \in {"check_flag", "set_flag"} => lock_holder = d

\* a step that changes the flag is the store of a monitor that holds the lock,
\* and it makes the flag true
OnlyStoreChangesFlag ==
    prime_found' # prime_found =>
        /\ prime_found'
        /\ \E d \in Devices :
              pc[d] = "set_flag" /\ lock_holder = d /\ pc'[d] = "found"

\* C3 as amended: every monitor stores to the flag at most once, so a run has
\* at most one store per device; every store writes true and is made under an
\* acquisition of the lock of its own, the lock of the read at the top of the
\* iteration having been released before the buffers are read.
C3_OneStorePerMonitor ==
    /\ [](\A d \in Devices : flag_writes[d] <= 1)
    /\ [](TotalFlagWrites <= NumDevices)
    /\ []LockOnlyAroundAccess
    /\ [][OnlyStoreChangesFlag]_vars

\* C3 witness: two stores have been made, the second with the flag already true.
C3_Witness == GenuineReports /\ TotalFlagWrites = 2

\* the runs over a range that holds a prime, fairly scheduled
InitPrime == Init /\ RangeHasPrime

FairSpecPrime == InitPrime /\ [][Next]_vars /\ Fairness

\* C4: for a range that holds a prime, under fair scheduling and with no
\* failure, eventually the flag is true and every monitor has ended in Found
\* (its own result) or Stopped (the flag set by a sibling).
C4_Coverage ==
    (RangeHasPrime /\ []NoFailure)
        => <>(prime_found /\ \A d \in Devices : pc[d] \in {"found", "stopped"})

\* C4 witness: the flag is true, one monitor ended on its own result and one
\* on the flag set by its sibling.
C4_Witness ==
    /\ prime_found
    /\ NoFailure
    /\ \E d \in Devices : pc[d] = "found"
    /\ \E d \in Devices : pc[d] = "stopped"

\* the runs over a range that holds no prime, fairly scheduled
InitNoPrime == Init /\ ~RangeHasPrime

FairSpecNoPrime == InitNoPrime /\ [][Next]_vars /\ Fairness

\* every result buffer holds zero: it was created zeroed and no lane wrote it
ResultsZero == \A d \in Devices : result[d] = 0

\* C5 as stated: for a range with no prime and buffers that start zeroed, with
\* no failure and under fair scheduling, every monitor eventually is Stopped
\* with the flag false and main() prints the summary with the no-result line.
C5_NoResultTermination ==
    (~RangeHasPrime /\ []NoFailure /\ []ResultsZero)
        => <>(/\ \A d \in Devices : pc[d] = "stopped"
              /\ ~prime_found
              /\ summary = <<NoPrimeLine, FinishedLine>>)

\* the step in which monitor d takes an Err arm changes nothing but d's own
\* position and locals
ErrorStepIsolated ==
    \A d \in Devices :
        (pc[d] # "errored" /\ pc'[d] = "errored") =>
            /\ UNCHANGED <<prime_found, lock_holder, found_report, flag_writes>>
            /\ UNCHANGED mainVars
            /\ UNCHANGED kernelVars
            /\ \A e \in Devices \ {d} :
                  pc'[e] = pc[e] /\ elapsed_time'[e] = elapsed_time[e]

\* a monitor that ended in an Err arm printed no result and stored no flag
ErroredSilent ==
    \A d \in Devices :
        pc[d] = "errored" => found_report[d] = <<>> /\ flag_writes[d] = 0

\* C6: a monitor whose read fails ends Errored without a store of the flag and
\* without a result line, its failing step changes nothing its siblings or
\* main() read except that its thread has finished, and for a range that holds
\* a prime every monitor that does not fail itself still ends Found or
\* Stopped, whatever reads of its siblings failed.
C6_ReadFailureIsolation ==
    /\ []ErroredSilent
    /\ [][ErrorStepIsolated]_vars
    /\ \A d \in Devices :
          [](mainPc # "aborted" /\ pc[d] \notin {"errored", "panicked"})
              => <>(pc[d] \in {"found", "stopped"})

\* C6 witness: one monitor ended Errored and its sibling ended Found.
C6_Witness ==
    /\ \E d \in Devices : pc[d] = "errored"
    /\ \E d \in Devices : pc[d] = "found"
    /\ mainPc = "done"

\* C7 as stated: a telemetry failure in one monitor does not end the run:
\* main() is not brought down by it.
C7_TelemetryIsolation ==
    (\E d \in Devices : pc[d] = "panicked") => mainPc # "aborted"

\* C8: a monitor begins at most one status read while the flag is true.
C8_OneReadAfterFlag == \A d \in Devices : reads_after_flag[d] <= 1

\* C8 witness: a monitor read the status once with the flag set, found no
\* result of its own and stopped at its next check of the flag.
C8_Witness ==
    \E d \in Devices :
        reads_after_flag[d] = 1 /\ pc[d] = "stopped" /\ found_report[d] = <<>>

\* C9: once main() is at, or past, the summary every monitor thread has
\* returned (Found, Stopped or Errored).
C9_SummaryAfterMonitors ==
    (mainPc = "summary" \/ summary # <<>>) =>
        \A d \in Devices : pc[d] \in {"found", "stopped", "errored"}

\* C9 witness: the summary is printed after one monitor found a result, one
\* having stopped on the flag.
C9_Witness ==
    /\ summary # <<>>
    /\ \E d \in Devices : pc[d] = "found"
    /\ \E d \in Devices : pc[d] = "stopped"

\* C10: when a construction step fails no kernel has been enqueued and no
\* monitor spawned; a spawned monitor implies every device was built and
\* enqueued.
C10_NoPartialStart ==
    /\ panic_at \in ConstructionSteps =>
          /\ enqueued = {}
          /\ \A d \in Devices : pc[d] = "unspawned"
    /\ (\E d \in Devices : pc[d] # "unspawned") =>
          /\ enqueued = Devices
          /\ kernels = Devices
          /\ result_buffers = Devices /\ status_buffers = Devices
          /\ pro_ques = Devices

\* C10 witness: the kernel of the last device fails to build after the
\* kernels of the other devices were built.
C10_Witness ==
    /\ panic_at = "build_kernel"
    /\ mainIdx = NumDevices
    /\ kernels = Devices \ {NumDevices}

\* n is a prime number (by definition, not by the kernel's test)
IsPrimeNumber(n) == n > 1 /\ \A k \in 2..(n - 1) : n % k # 0

\* the positions of a monitor thread inside its polling loop
Polling == {"lock_check", "check_flag", "read_status", "read_result", "telemetry"}

\* C11 as stated: every value printed as found lies in [start, end] and is a
\* prime number.
C11_ReportedValuesQualify ==
    \A d \in Devices : \A k \in 1..Len(found_report[d]) :
        LET v == found_report[d][k]
        IN  start <= v /\ v <= end /\ IsPrimeNumber(v)

\* the first n values of the stride of lane l
ExpectedScan(l, n) == [k \in 1..n |-> start + l + (k - 1) * MaxThreads]

\* the smallest prime number of [start, end]
FirstPrime ==
    CHOOSE p \in start..end :
        IsPrimeNumber(p) /\ \A q \in start..(p - 1) : ~IsPrimeNumber(q)

\* C12: every lane writes to its status slot the values of its stride in
\* ascending order, none after a prime and none above end, and the slot holds
\* the last value written; with 1 lane the values are start, start+1, .., and
\* a kernel that has finished over a range with a prime wrote exactly start..p
\* and left p, the smallest prime >= start, in result[0], so that the status
\* slot never shows a value above p.
C12_SingleLaneScanOrder ==
    /\ \A d \in Devices : \A l \in Lanes :
          LET log == status_log[d][l]
          IN  /\ log = ExpectedScan(l, Len(log))
              /\ \A k \in 1..Len(log) : log[k] <= end
              /\ \A k \in 1..(Len(log) - 1) : ~IsPrimeNumber(log[k])
              /\ Len(log) > 0 => status[d][l] = log[Len(log)]
    /\ MaxThreads = 1 =>
          \A d \in Devices :
              /\ (lanePc[d][0] = "done" /\ RangeHasPrime) =>
                    /\ result[d] = FirstPrime
                    /\ status_log[d][0] = [k \in 1..(FirstPrime - start + 1) |-> start + k - 1]
              /\ IsPrimeNumber(result[d]) =>
                    /\ result[d] = FirstPrime
                    /\ Len(status_log[d][0]) = FirstPrime - start + 1
              /\ (Len(status_log[d][0]) > 0 /\ RangeHasPrime) =>
                    status[d][0] <= FirstPrime
              /\ (lanePc[d][0] = "done" /\ ~RangeHasPrime) =>
                    Len(status_log[d][0]) = end - start + 1

\* C12 witness: a single-lane kernel has finished after writing start and
\* start + 1 to its status slot and start + 1, a prime, to result[0].
C12_Witness ==
    /\ MaxThreads = 1
    /\ \E d \in Devices :
          /\ lanePc[d][0] = "done"
          /\ status_log[d][0] = <<start, start + 1>>
          /\ result[d] = start + 1
          /\ IsPrimeNumber(start + 1)

\* C13 as stated: a monitor whose result buffer holds a prime when it starts a
\* tick does not end that tick in Stopped.
C13_ResultBeforeFlag ==
    [][\A d \in Devices :
          (pc[d] = "check_flag" /\ IsPrimeNumber(result[d])) => pc'[d] # "stopped"]_vars

\* the step that leaves the check of the flag goes to Stopped when the flag is
\* true, without a read of a buffer and without a report, and to the status
\* read when it is false
FlagDecidesFirst ==
    \A d \in Devices :
        (pc[d] = "check_flag" /\ pc'[d] # "check_flag") =>
            IF prime_found
            THEN /\ pc'[d] = "stopped"
                 /\ found_report'[d] = found_report[d]
                 /\ buffers_read'[d] = buffers_read[d]
            ELSE pc'[d] = "read_status"

\* a monitor goes to the store of the flag only from a read of a non-zero result
FoundOnlyOnNonZero ==
    \A d \in Devices :
        (pc[d] # "lock_set" /\ pc'[d] = "lock_set") =>
            pc[d] = "read_result" /\ result[d] # 0

\* C13 as amended: the flag takes precedence over the result within a tick: a
\* monitor first consults the flag and, when it is true, ends Stopped without
\* reading its buffers; only when the flag is false does it read the result
\* buffer and go to Found on a non-zero first slot.  A Stopped monitor has
\* seen the flag true and has reported nothing, whatever its result buffer
\* holds.
C13_FlagBeforeResult ==
    /\ [][FlagDecidesFirst]_vars
    /\ [][FoundOnlyOnNonZero]_vars
    /\ [](\A d \in Devices :
             pc[d] = "stopped" => prime_found /\ found_report[d] = <<>>)

\* C13 witness: a monitor ended Stopped while its result buffer held a prime.
C13_Witness ==
    \E d \in Devices : pc[d] = "stopped" /\ IsPrimeNumber(result[d])

\* after a completed tick the monitor has printed a sample exactly when the
\* tick's counter value was a multiple of the interval
SampleOnMultiples ==
    \A d \in Devices :
        pc[d] \in Polling =>
            IF elapsed_time[d] = 0
            THEN ~sample_emitted[d]
            ELSE sample_emitted[d] <=> (elapsed_time[d] - 1) % SampleInterval = 0

\* the counter and the sample change only in the step after both reads that
\* ends with the sleep (or when the thread starts or ends); that step adds
\* exactly 1 to the counter and queries the telemetry exactly when the counter
\* is a multiple of the interval
SampleStep ==
    \A d \in Devices :
        /\ (elapsed_time'[d] # elapsed_time[d] \/ sample_emitted'[d] # sample_emitted[d]
              \/ telemetry_queried'[d] # telemetry_queried[d]) =>
              \/ pc[d] = "telemetry"
              \/ pc'[d] \in ThreadFinished /\ pc[d] \in Polling \cup {"set_flag"}
        /\ (pc[d] = "telemetry" /\ pc'[d] = "lock_check") =>
              /\ \/ elapsed_time'[d] = elapsed_time[d] + 1
                 \/ /\ elapsed_time[d] = ElapsedCap
                    /\ elapsed_time'[d] = ElapsedCap + 1 - SampleInterval
              /\ sample_emitted'[d] <=> elapsed_time[d] % SampleInterval = 0
        /\ (pc[d] = "telemetry" /\ pc'[d] = "panicked") =>
              elapsed_time[d] % SampleInterval = 0

\* C14: a monitor prints a telemetry sample on exactly the ticks whose counter
\* is a multiple of 10 (tick 0 included) and that reach the telemetry step,
\* after both buffer reads and before the sleep, provided the query succeeds;
\* the counter grows by exactly 1 per completed sleep, so two consecutive
\* samples of a monitor are 10 ticks apart.
C14_TelemetryGating ==
    /\ []SampleOnMultiples
    /\ [][SampleStep]_vars

\* C14 witness: a monitor is at the telemetry step of tick 10, ten sleeps
\* after the sample of tick 0 and with no sample in the tick before.
C14_Witness ==
    \E d \in Devices :
        /\ pc[d] = "telemetry"
        /\ elapsed_time[d] = SampleInterval
        /\ ~sample_emitted[d]
        /\ telemetry_queried[d] # {}

\* a lane that has not finished can take its next step while the process
\* lives, whatever the flag and the monitors are
LanesKeepRunning ==
    \A d \in Devices : \A l \in Lanes :
        (ProcessAlive /\ d \in enqueued /\ lanePc[d][l] \in {"loop", "test"})
            => ENABLED LaneStep(d, l)

\* a step of a monitor thread, and any change of the flag, leaves the kernels
\* and the device buffers as they are
MonitorStepKeepsKernels ==
    ((\E d \in Devices : pc'[d] # pc[d]) \/ prime_found' # prime_found)
        => UNCHANGED <<result, status, lanePc, laneI, status_log>>

\* C15: no monitor transition and no store of the flag changes a kernel or a
\* buffer, a lane that is still scanning can go on (and write result[0])
\* after the flag is set, and a Stopped monitor has printed no result.
C15_NoCancellation ==
    /\ []LanesKeepRunning
    /\ [][MonitorStepKeepsKernels]_vars
    /\ [](\A d \in Devices : pc[d] = "stopped" => found_report[d] = <<>>)

\* C15 witness: the flag is set, the monitor of a device has stopped, and the
\* lane of that device is about to write a prime to result[0].
C15_Witness ==
    /\ prime_found
    /\ ProcessAlive
    /\ \E d \in Devices : \E l \in Lanes :
          /\ pc[d] = "stopped"
          /\ lanePc[d][l] = "test"
          /\ IsPrimeNumber(laneI[d][l])

\* C16: monitor d reads the buffers of device d only and queries the telemetry
\* of index d only, so no buffer is read by two monitors and no telemetry
\* index is queried by two monitors.
C16_PerDeviceIsolation ==
    /\ \A d \in Devices :
          buffers_read[d] \subseteq {d} /\ telemetry_queried[d] \subseteq {d}
    /\ \A d, e \in Devices :
          d # e =>
             /\ buffers_read[d] \cap buffers_read[e] = {}
             /\ telemetry_queried[d] \cap telemetry_queried[e] = {}

\* C16 witness: every monitor has read its buffers and queried its telemetry.
C16_Witness ==
    \A d \in Devices : buffers_read[d] = {d} /\ telemetry_queried[d] = {d}

\* the holder of the mutex is at the read or at the store of the bool, so not
\* at a buffer read, a telemetry query, a report or the sleep, and it can take
\* its step
HolderAtAccess ==
    \A d \in Devices :
        lock_holder = d =>
            /\ pc[d] \in {"check_flag", "set_flag"}
            /\ ProcessAlive => ENABLED (CheckFlag(d) \/ SetFlag(d))

\* the next step of the holder of the mutex releases it
HolderReleasesNext ==
    \A d \in Devices :
        (lock_holder = d /\ pc'[d] # pc[d]) => lock_holder' = NoHolder

\* C17: the mutex is held only for one read or one store of the bool and is
\* released by the holder's next step; while the process lives some step is
\* possible; and under fair scheduling a monitor that waits for the mutex
\* gets it (or the process ends).
C17_NoBlocking ==
    /\ []HolderAtAccess
    /\ [][HolderReleasesNext]_vars
    /\ [](ProcessAlive => ENABLED Next)
    /\ \A d \in Devices :
          (pc[d] \in {"lock_check", "lock_set"})
              ~> (pc[d] \notin {"lock_check", "lock_set"} \/ ~ProcessAlive)

\* C17 witness: a monitor waits for the mutex to store the flag while its
\* sibling holds it.
C17_Witness ==
    \E d, e \in Devices :
        d # e /\ pc[d] = "lock_set" /\ lock_holder = e /\ ProcessAlive

\* C18: when the flag is true some monitor has read a non-zero value from its
\* own result buffer, printed it and stored the flag; a monitor that ended
\* Stopped, Errored or by a panic has not stored the flag.
C18_FlagImpliesReport ==
    /\ prime_found =>
          \E d \in Devices :
              /\ pc[d] = "found"
              /\ flag_writes[d] >= 1
              /\ Len(found_report[d]) >= 1
              /\ found_report[d][1] # 0
              /\ d \in buffers_read[d]
    /\ \A d \in Devices :
          pc[d] \in {"stopped", "errored", "panicked", "unspawned"} =>
              flag_writes[d] = 0

\* C18 witness: the flag is true, one monitor ended Found after its report
\* and another ended Errored without a store.
C18_Witness ==
    /\ prime_found
    /\ \E d \in Devices : pc[d] = "found" /\ found_report[d] # <<>>
    /\ \E d \in Devices : pc[d] = "errored" /\ flag_writes[d] = 0

\* C19: once the summary is printed, its no-result line is there exactly when
\* no monitor ended Found, which is exactly when the flag is false; the last
\* line is the finished line.
C19_SummaryAccuracy ==
    summary # <<>> =>
        /\ summary[1] = NoPrimeLine <=> \A d \in Devices : pc[d] # "found"
        /\ summary[1] = NoPrimeLine <=> ~prime_found
        /\ summary[Len(summary)] = FinishedLine
        /\ Len(summary) = IF prime_found THEN 1 ELSE 2

\* C19 witness: every monitor ended Errored, the summary says that no prime
\* was found, and a result buffer holds a prime of the range.
C19_Witness ==
    /\ summary = <<NoPrimeLine, FinishedLine>>
    /\ \A d \in Devices : pc[d] = "errored"
    /\ \E d \in Devices :
          IsPrimeNumber(result[d]) /\ start <= result[d] /\ result[d] <= end

====
